---- MODULE Spec2Model ----
(***************************************************************************)
(* A model of the bridge client of remnote-mcp-bridge:                     *)
(* src/src/bridge/websocket-client.ts, class WebSocketClient.              *)
(*                                                                         *)
(* The client's fields are the variables ws .. isShuttingDown and config.  *)
(* The browser side is readyState (one entry per WebSocket object the      *)
(* client constructed) and timers (the setTimeout timers that are armed    *)
(* and have neither fired nor been cleared).  inflight holds the handler   *)
(* invocations suspended at the await of handleMessage.                    *)
(*                                                                         *)
(* Every action is one run-to-completion task of the single-threaded event *)
(* loop: a public method called by the owner, a socket event, a timer      *)
(* expiry, or the continuation of handleMessage after its await.  What the *)
(* task did that an observer can see (status notifications, timers armed,  *)
(* frames sent, log lines, methods invoked) is kept in the variables       *)
(* op .. logs, which describe the LAST task only.                          *)
(***************************************************************************)
EXTENDS Integers, Sequences, FiniteSets, TLC

VARIABLES
    ws,                 \* this.ws: 0 is null, else the id of a socket
    reconnectAttempts,  \* this.reconnectAttempts
    reconnectTimeout,   \* this.reconnectTimeout: 0 is null, else a timer id
    messageHandler,     \* this.messageHandler: 0 is null, else a handler id
    status,             \* this.status
    isShuttingDown,     \* this.isShuttingDown
    config,             \* this.config (set by the constructor, never changed)
    env,                \* the surroundings of this run: the frames the peer sends,
                        \* the handlers the owner registers and what their
                        \* invocations end with, whether the WebSocket
                        \* implementation delivers the frames that arrive after
                        \* close(), whether config.onLog can throw, and whether
                        \* the arrival socket of a request is remembered (never
                        \* changed)
    readyState,         \* readyState of every socket the client constructed
    established,        \* the open or closing sockets whose connection was
                        \* established (kept when late frames are delivered)
    timers,             \* ids of the timers that are armed and pending
    inflight,           \* handler invocations awaiting completion
    op,                 \* what started the last task
    source,             \* the socket whose event started the last task, 0 if none
    calls,              \* public/private methods the last task invoked, in order
    notified,           \* statuses passed to onStatusChange by the last task
    armed,              \* setTimeout calls of the last task: the timer, the attempt
                        \* counter read, the delay, and whether this is the first
                        \* backoff computed since reconnect()
    sent,               \* frames handed to WebSocket.send by the last task
    logs,               \* onLog calls of the last task
    closed,             \* WebSocket.close calls of the last task
    settled,            \* the invocation whose await resumed in the last task
    received,           \* frames handleMessage was called with in the last task
    invoked,            \* handler invocations the last task started
    raised,             \* an exception escaped the last task
    registering,        \* the handler the last task passed to setMessageHandler, else 0
    sinceDisconnect,    \* history: disconnect() ran and connect() has not run since
    afterReconnect,     \* history: reconnect() ran and no backoff was computed since
    wsClient,           \* the plugin's module-level binding: a client, or 0 for null
    clients,            \* the clients the plugin has constructed: for each, the
                        \* state its last task left
    activation,         \* where each call of onActivate stands
    loaded              \* RemNote has activated the plugin and not deactivated it since

vars == << ws, reconnectAttempts, reconnectTimeout, messageHandler, status,
           isShuttingDown, config, env, readyState, established, timers, inflight,
           op, source,
           calls,
           notified, armed, sent, logs, closed, settled, received, invoked,
           raised, registering, sinceDisconnect, afterReconnect,
           wsClient, clients, activation, loaded >>

----------------------------------------------------------------------------
(* Bounds of the model *)

\* WebSocket objects that exist at once (the current one and stale closing ones)
MaxSockets == 2
\* timers pending at once
MaxTimers == 2
\* config.maxReconnectAttempts of the modelled client
MaxReconnectAttempts == 2
\* Math.random() is drawn from { k / JitterSteps : k \in 0 .. JitterSteps-1 }
JitterSteps == 2
\* handler invocations suspended at once
MaxInflight == 1
MaxOverlap == 2
\* clients the plugin constructs, and calls of onActivate, that are followed
MaxClients == 2
MaxActivations == 2
\* largest attempt counter the backoff computation is tabulated for
MaxExponent == 7

(* Program constants *)

\* Number.POSITIVE_INFINITY as a value of config.maxReconnectAttempts
Infinity == -1
DefaultInitialReconnectDelay == 1000
DefaultMaxReconnectDelay == 30000
\* initialReconnectDelay and maxReconnectDelay as startBridge sets them
PluginInitialReconnectDelay == 1000
PluginMaxReconnectDelay == 30000
\* the jitter factor 0.3, in tenths
JitterTenths == 3
\* JSON-RPC error code of every handler failure
RpcErrorCode == -32000
\* WebSocket close code used by disconnect()
NormalClosure == 1000

SocketIds == 1 .. MaxSockets
TimerIds == 1 .. MaxTimers
Min(a, b) == IF a <= b THEN a ELSE b

RECURSIVE Pow2(_)
Pow2(n) == IF n <= 0 THEN 1 ELSE 2 * Pow2(n - 1)

\* Delays are kept in units of 1 / DelayScale ms so that the jitter is an integer.
DelayScale == 10 * JitterSteps

----------------------------------------------------------------------------
(* The state a task works on: the client's fields, the browser's sockets   *)
(* and timers, and what the task has done so far.  Cur is the state at the *)
(* start of a task; Commit(task, o) makes the state the task ends in the   *)
(* next state.                                                             *)

Cur ==
    [ ws |-> ws, reconnectAttempts |-> reconnectAttempts,
      reconnectTimeout |-> reconnectTimeout, messageHandler |-> messageHandler,
      status |-> status, isShuttingDown |-> isShuttingDown, config |-> config,
      env |-> env, source |-> 0,
      readyState |-> readyState, established |-> established,
      timers |-> timers, inflight |-> inflight,
      calls |-> << >>, notified |-> << >>, armed |-> << >>, sent |-> << >>,
      logs |-> << >>, closed |-> << >>, settled |-> << >>,
      received |-> << >>, invoked |-> << >>, registering |-> 0,
      sinceDisconnect |-> sinceDisconnect, afterReconnect |-> afterReconnect,
      threw |-> FALSE,  \* an exception is propagating
      room |-> TRUE ]   \* FALSE once the task needed more ids than the bounds give

\* A socket that has delivered its close event and that the client no longer
\* refers to can never act again: its id is free for the next socket.
Collect(rs, cur) ==
    [ s \in SocketIds |-> IF rs[s] = "CLOSED" /\ s # cur THEN "NONE" ELSE rs[s] ]

\* The socket an invocation's request arrived on is remembered (in the runs that
\* are about it: env.arrival) while that socket exists, and is 0 afterwards.
Arrived(invs, rs) ==
    { [ inv EXCEPT !.sock = IF @ # 0 /\ rs[@] = "NONE" THEN 0 ELSE @ ] : inv \in invs }

Commit(task, o) ==
    \E c \in { task } :
    /\ c.room
    /\ Cardinality(Arrived(c.inflight, Collect(c.readyState, c.ws)))
            = Cardinality(c.inflight)
    /\ ws' = c.ws
    /\ reconnectAttempts' = c.reconnectAttempts
    /\ reconnectTimeout' = c.reconnectTimeout
    /\ messageHandler' = c.messageHandler
    /\ status' = c.status
    /\ isShuttingDown' = c.isShuttingDown
    /\ config' = c.config
    /\ env' = c.env
    /\ source' = c.source
    /\ readyState' = Collect(c.readyState, c.ws)
    /\ established' = IF c.env.lateFrames
                      THEN { s \in c.established :
                                c.readyState[s] \in { "OPEN", "CLOSING" } }
                      ELSE { }
    /\ timers' = c.timers
    /\ inflight' = Arrived(c.inflight, Collect(c.readyState, c.ws))
    /\ op' = o
    /\ calls' = c.calls
    /\ notified' = c.notified
    /\ armed' = c.armed
    /\ sent' = c.sent
    /\ logs' = c.logs
    /\ closed' = c.closed
    /\ settled' = c.settled
    /\ received' = c.received
    /\ invoked' = c.invoked
    /\ raised' = c.threw
    /\ registering' = c.registering
    /\ sinceDisconnect' = c.sinceDisconnect
    /\ afterReconnect' = c.afterReconnect
    /\ UNCHANGED << wsClient, clients, activation, loaded >>

Called(c, method) == [ c EXCEPT !.calls = Append(@, method) ]

----------------------------------------------------------------------------
(* WebSocketClient: logging, status, reconnection schedule                 *)

\* log that hands over error lines only
LogErrorsOnly(c, message, level) ==
    IF level = "error"
    THEN [ c EXCEPT !.logs = Append(@, [ message |-> message, level |-> level ]) ]
    ELSE c

\* log(message, level): hands the line to config.onLog
Log(c, message, level) ==
    [ c EXCEPT !.logs = Append(@, [ message |-> message, level |-> level ]) ]

\* setStatus that calls the observer on every call
SetStatusAlwaysNotifies(c, s) ==
    [ c EXCEPT !.status = s, !.notified = Append(@, s) ]

\* setStatus(status): the observer is called only when the status changes
SetStatus(c, s) ==
    IF c.status # s
    THEN [ c EXCEPT !.status = s, !.notified = Append(@, s) ]
    ELSE c

\* the exponential delay without its cap
BaseDelayUncapped(attempts, initialDelay, maxDelay) ==
    initialDelay * Pow2(attempts)

\* Math.min(initialReconnectDelay * Math.pow(2, attempts), maxReconnectDelay)
BaseDelay(attempts, initialDelay, maxDelay) ==
    Min(initialDelay * Pow2(attempts), maxDelay)

\* baseDelay + Math.random() * 0.3 * baseDelay with Math.random() = k / JitterSteps,
\* in units of 1 / DelayScale ms
BackoffDelay(attempts, initialDelay, maxDelay, k) ==
    LET baseDelay == BaseDelay(attempts, initialDelay, maxDelay)
    IN  baseDelay * DelayScale + k * JitterTenths * baseDelay

\* the exhaustion test with > for >=
AttemptsExhaustedOffByOne(attempts, maxAttempts) ==
    maxAttempts # Infinity /\ attempts > maxAttempts

\* this.reconnectAttempts >= this.config.maxReconnectAttempts
AttemptsExhausted(attempts, maxAttempts) ==
    maxAttempts # Infinity /\ attempts >= maxAttempts

\* The handles setTimeout can return: any that no pending timer has.
FreeTimers(c) == TimerIds \ c.timers

LeastOf(S) == CHOOSE x \in S : \A y \in S : x <= y

\* scheduleReconnect without this.reconnectAttempts++
ScheduleReconnectNoCount(c, k) ==
    LET c0 == Called(c, "scheduleReconnect") IN
    IF c0.isShuttingDown
    THEN c0
    ELSE IF AttemptsExhausted(c0.reconnectAttempts, c0.config.maxReconnectAttempts)
    THEN Log(c0, "Max reconnection attempts reached", "error")
    ELSE IF FreeTimers(c0) = { }
    THEN [ c0 EXCEPT !.room = FALSE ]
    ELSE
        LET delay == BackoffDelay(c0.reconnectAttempts, c0.config.initialReconnectDelay,
                                  c0.config.maxReconnectDelay, k)
            t == LeastOf(FreeTimers(c0))
            c2 == Log(c0, "Reconnecting", "info")
        IN  [ c2 EXCEPT !.reconnectTimeout = t,
                        !.timers = @ \cup { t },
                        !.afterReconnect = FALSE,
                        !.armed = Append(@, [ timer |-> t,
                                              attempts |-> c0.reconnectAttempts,
                                              delay |-> delay,
                                              afterReconnect |-> c0.afterReconnect ]) ]

\* scheduleReconnect(); k is the value Math.random() returns
ScheduleReconnect(c, k) ==
    LET c0 == Called(c, "scheduleReconnect") IN
    IF c0.isShuttingDown
    THEN c0
    ELSE IF AttemptsExhausted(c0.reconnectAttempts, c0.config.maxReconnectAttempts)
    THEN Log(c0, "Max reconnection attempts reached", "error")
    ELSE IF FreeTimers(c0) = { }
    THEN [ c0 EXCEPT !.room = FALSE ]
    ELSE
        LET delay == BackoffDelay(c0.reconnectAttempts, c0.config.initialReconnectDelay,
                                  c0.config.maxReconnectDelay, k)
            t == LeastOf(FreeTimers(c0))
            c1 == [ c0 EXCEPT !.reconnectAttempts = @ + 1 ]
            c2 == Log(c1, "Reconnecting", "info")
        IN  [ c2 EXCEPT !.reconnectTimeout = t,
                        !.timers = @ \cup { t },
                        !.afterReconnect = FALSE,
                        !.armed = Append(@, [ timer |-> t,
                                              attempts |-> c0.reconnectAttempts,
                                              delay |-> delay,
                                              afterReconnect |-> c0.afterReconnect ]) ]

----------------------------------------------------------------------------
(* WebSocketClient: connect, disconnect, reconnect and the socket handlers *)

\* a guard of connect() that lets a connecting socket be replaced
OpenOrConnectingOnlyOpen(c) ==
    c.ws # 0 /\ c.readyState[c.ws] = "OPEN"

\* this.ws?.readyState === WebSocket.OPEN || this.ws?.readyState === WebSocket.CONNECTING
OpenOrConnecting(c) ==
    c.ws # 0 /\ c.readyState[c.ws] \in { "OPEN", "CONNECTING" }

FreeSockets(c) == { s \in SocketIds : c.readyState[s] = "NONE" }

\* connect() whose catch block leaves the status at connecting
ConnectCatchKeepsStatus(c, throws, k) ==
    LET c0 == [ Called(c, "connect") EXCEPT !.sinceDisconnect = FALSE ] IN
    IF OpenOrConnecting(c0)
    THEN c0
    ELSE
        LET c1 == [ c0 EXCEPT !.isShuttingDown = FALSE ]
            c2 == SetStatus(c1, "connecting")
            c3 == Log(c2, "Connecting", "info")
        IN  IF throws
            THEN ScheduleReconnect(Log(c3, "Connection failed", "error"), k)
            ELSE IF FreeSockets(c3) = { }
            THEN [ c3 EXCEPT !.room = FALSE ]
            ELSE LET s == LeastOf(FreeSockets(c3))
                 IN  [ c3 EXCEPT !.ws = s, !.readyState[s] = "CONNECTING" ]

\* connect(); throws: whether new WebSocket(url) throws; k: Math.random() of the
\* reconnect scheduled when it does
Connect(c, throws, k) ==
    LET c0 == [ Called(c, "connect") EXCEPT !.sinceDisconnect = FALSE ] IN
    IF OpenOrConnecting(c0)
    THEN c0
    ELSE
        LET c1 == [ c0 EXCEPT !.isShuttingDown = FALSE ]
            c2 == SetStatus(c1, "connecting")
            c3 == Log(c2, "Connecting", "info")
        IN  IF throws
            THEN \* catch: this.ws keeps the value it had
                 LET c4 == Log(c3, "Connection failed", "error")
                     c5 == SetStatus(c4, "disconnected")
                 IN  ScheduleReconnect(c5, k)
            ELSE IF FreeSockets(c3) = { }
            THEN [ c3 EXCEPT !.room = FALSE ]
            ELSE LET s == LeastOf(FreeSockets(c3))
                 IN  [ c3 EXCEPT !.ws = s, !.readyState[s] = "CONNECTING" ]

\* close(code) that leaves the socket as it was
CloseSocketKeepsOpen(c, s, code) ==
    [ c EXCEPT !.closed = Append(@, [ sock |-> s, code |-> code ]) ]

\* WebSocket.close(code): an open or connecting socket starts closing; its close
\* event comes later.  On a closing or closed socket the call does nothing.
CloseSocket(c, s, code) ==
    [ c EXCEPT !.readyState[s] = IF @ \in { "OPEN", "CONNECTING" } THEN "CLOSING" ELSE @,
               !.closed = Append(@, [ sock |-> s, code |-> code ]) ]

\* disconnect that closes the socket and keeps its handle
DisconnectKeepsHandle(c) ==
    LET c0 == [ Called(c, "disconnect") EXCEPT !.isShuttingDown = TRUE ]
        c1 == IF c0.reconnectTimeout # 0
              THEN [ c0 EXCEPT !.timers = @ \ { c0.reconnectTimeout },
                               !.reconnectTimeout = 0 ]
              ELSE c0
        c2 == IF c1.ws # 0 THEN CloseSocket(c1, c1.ws, NormalClosure) ELSE c1
        c3 == SetStatus(c2, "disconnected")
    IN  [ c3 EXCEPT !.sinceDisconnect = TRUE ]

\* disconnect that does not set the shutdown flag
DisconnectLeavesFlag(c) ==
    LET c0 == Called(c, "disconnect")
        c1 == IF c0.reconnectTimeout # 0
              THEN [ c0 EXCEPT !.timers = @ \ { c0.reconnectTimeout },
                               !.reconnectTimeout = 0 ]
              ELSE c0
        c2 == IF c1.ws # 0
              THEN [ CloseSocket(c1, c1.ws, NormalClosure) EXCEPT !.ws = 0 ]
              ELSE c1
        c3 == SetStatus(c2, "disconnected")
    IN  [ c3 EXCEPT !.sinceDisconnect = TRUE ]

\* disconnect()
Disconnect(c) ==
    LET c0 == [ Called(c, "disconnect") EXCEPT !.isShuttingDown = TRUE ]
        c1 == IF c0.reconnectTimeout # 0
              THEN [ c0 EXCEPT !.timers = @ \ { c0.reconnectTimeout },
                               !.reconnectTimeout = 0 ]
              ELSE c0
        c2 == IF c1.ws # 0
              THEN [ CloseSocket(c1, c1.ws, NormalClosure) EXCEPT !.ws = 0 ]
              ELSE c1
        c3 == SetStatus(c2, "disconnected")
    IN  [ c3 EXCEPT !.sinceDisconnect = TRUE ]

\* reconnect that does not reset the attempt counter
ReconnectKeepsCount(c, throws, k) ==
    LET c0 == [ Called(c, "reconnect") EXCEPT !.afterReconnect = TRUE ]
    IN  Connect(Disconnect(c0), throws, k)

\* reconnect()
Reconnect(c, throws, k) ==
    LET c0 == [ Called(c, "reconnect") EXCEPT !.reconnectAttempts = 0,
                                               !.afterReconnect = TRUE ]
    IN  Connect(Disconnect(c0), throws, k)

\* an open handler that leaves the attempt counter as it was
OnOpenKeepsCount(c) ==
    SetStatus(Log(c, "Connected to MCP server", "info"), "connected")

\* ws.onopen
OnOpen(c) ==
    LET c0 == Log(c, "Connected to MCP server", "info")
        c1 == [ c0 EXCEPT !.reconnectAttempts = 0 ]
    IN  SetStatus(c1, "connected")

\* a close handler that schedules no reconnect while a handler is outstanding
OnCloseWaitsForHandlers(c, k) ==
    LET c0 == Log(c, "Disconnected", "warn")
        c1 == SetStatus(c0, "disconnected")
    IN  IF ~ c1.isShuttingDown /\ c1.inflight = { } THEN ScheduleReconnect(c1, k) ELSE c1

\* ws.onclose
OnClose(c, k) ==
    LET c0 == Log(c, "Disconnected", "warn")
        c1 == SetStatus(c0, "disconnected")
    IN  IF ~ c1.isShuttingDown THEN ScheduleReconnect(c1, k) ELSE c1

\* ws.onerror
OnError(c) == Log(c, "WebSocket error", "error")

\* a timer callback that does not call connect()
OnTimeoutForgetsConnect(c, throws, k) == c

\* the setTimeout callback of scheduleReconnect: () => { this.connect(); }
OnTimeout(c, throws, k) == Connect(c, throws, k)

\* setMessageHandler that also abandons the invocations in flight
SetMessageHandlerCancels(c, h) ==
    [ Called(c, "setMessageHandler") EXCEPT !.messageHandler = h, !.registering = h,
                                            !.inflight = { } ]

\* setMessageHandler(handler)
SetMessageHandler(c, h) ==
    [ Called(c, "setMessageHandler") EXCEPT !.messageHandler = h, !.registering = h ]

----------------------------------------------------------------------------
(* Frames.  A JSON value is [t, v]: its type and a name for its content.   *)
(* A parsed object is kept by the fields the client reads; a field the     *)
(* object does not have reads as undefined, as in JavaScript.              *)

JUndefined == [ t |-> "undefined", v |-> "" ]
JNull == [ t |-> "null", v |-> "" ]
JStr(x) == [ t |-> "string", v |-> x ]
JNum(x) == [ t |-> "number", v |-> x ]
JObj(x) == [ t |-> "object", v |-> x ]
JArr(x) == [ t |-> "array", v |-> x ]
\* a value JSON.stringify throws on: a BigInt, an object with a cycle
JUnserializable == [ t |-> "unserializable", v |-> "" ]

\* a frame whose text is a JSON object with the given fields
ObjectFrame(type, action, jsonrpc, method, id, payload, params) ==
    [ parse |-> "ok", t |-> "object", type |-> type, action |-> action,
      jsonrpc |-> jsonrpc, method |-> method, id |-> id, payload |-> payload,
      params |-> params ]

\* a frame whose text is JSON but not an object: a number, a string, null, an array
ValueFrame(t) ==
    [ parse |-> "ok", t |-> t, type |-> JUndefined, action |-> JUndefined,
      jsonrpc |-> JUndefined, method |-> JUndefined, id |-> JUndefined,
      payload |-> JUndefined, params |-> JUndefined ]

\* a frame whose text JSON.parse rejects
BadFrame == [ ValueFrame("none") EXCEPT !.parse = "error" ]

PingFrame ==
    ObjectFrame(JStr("ping"), JUndefined, JUndefined, JUndefined, JUndefined,
                JUndefined, JUndefined)

CustomFrame(id, action, payload) ==
    ObjectFrame(JUndefined, action, JUndefined, JUndefined, id, payload, JUndefined)

RpcFrame(id, method, params) ==
    ObjectFrame(JUndefined, JUndefined, JStr("2.0"), method, id, JUndefined, params)

\* the ids a request carries: none, null, a number (a string id is in LifecycleFrames)
RequestIds == { JUndefined, JNull, JNum("1") }

\* the frames of a run that is about the connection: a heartbeat and one request
LifecycleFrames == { PingFrame, CustomFrame(JStr("7"), JStr("noop"), JObj("p")) }

\* the frames of a run that is about dispatch
DispatchFrames ==
    { PingFrame, BadFrame, ValueFrame("number"), ValueFrame("array") }
    \cup { CustomFrame(id, JStr("noop"), JObj("p")) : id \in RequestIds }
    \cup { RpcFrame(id, JStr("noop"), JObj("p")) : id \in RequestIds }
    \cup { CustomFrame(JStr("7"), JNum("42"), JUndefined),
           ObjectFrame(JUndefined, JUndefined, JStr("1.0"), JStr("noop"), JStr("7"),
                       JUndefined, JUndefined) }
    \cup { ObjectFrame(JStr("ping"), JStr("noop"), JStr("2.0"), JStr("noop"), JStr("7"),
                       JObj("p"), JObj("p")) }

\* what a handler invocation ends with: a value, or an Error with a message
Outcomes == { [ ok |-> TRUE, result |-> JObj("r"), error |-> "" ],
              [ ok |-> FALSE, result |-> JUndefined, error |-> "boom" ] }

\* all a handler invocation can end with: also with no value (undefined), and with
\* a value that cannot be serialized
SettleOutcomes ==
    Outcomes \cup { [ ok |-> TRUE, result |-> JUndefined, error |-> "" ],
                    [ ok |-> TRUE, result |-> JUnserializable, error |-> "" ] }

----------------------------------------------------------------------------
(* WebSocketClient: handleMessage and normalizeIncomingRequest             *)

\* isRecord(value): typeof value === 'object' && value !== null
IsRecord(value) == value.t \in { "object", "array" }

\* asPayload(value)
AsPayload(value) == IF IsRecord(value) THEN value ELSE JObj("{}")

\* value ?? fallback
Coalesce(value, fallback) ==
    IF value.t \in { "undefined", "null" } THEN fallback ELSE value

\* a respond closure for every request, with or without an id key
HasIdAlways(message) == TRUE

\* a test of the id's truthiness in place of the key's presence
HasIdTruthy(message) == message.id.t \notin { "undefined", "null" }

\* 'id' in message: JSON has no undefined, so the key is there iff it has a value
HasId(message) == message.id.t # "undefined"

\* this.ws?.send(JSON.stringify(frame)): nothing without a socket (the argument
\* is not evaluated); an exception when JSON.stringify throws and on a connecting
\* socket; on a closing or closed socket the data is discarded silently
Send(c, frame) ==
    IF c.ws = 0 THEN c
    ELSE IF frame.result = JUnserializable THEN [ c EXCEPT !.threw = TRUE ]
    ELSE IF c.readyState[c.ws] = "CONNECTING" THEN [ c EXCEPT !.threw = TRUE ]
    ELSE IF c.readyState[c.ws] = "OPEN"
    THEN [ c EXCEPT !.sent = Append(@, [ sock |-> c.ws, frame |-> frame ]) ]
    ELSE c

\* the frames the client writes
OutFrame(type, jsonrpc, id, result, error, code) ==
    [ type |-> type, jsonrpc |-> jsonrpc, id |-> id, result |-> result,
      error |-> error, code |-> code ]

PongFrame == OutFrame(JStr("pong"), JUndefined, JUndefined, JUndefined, JUndefined, 0)

\* normalizeIncomingRequest that tests for the JSON-RPC shape first
NormalizeRpcFirst(message) ==
    IF ~ IsRecord(message)
    THEN [ ok |-> FALSE ]
    ELSE IF message.jsonrpc = JStr("2.0") /\ message.method.t = "string"
    THEN [ ok |-> TRUE,
           request |-> [ id |-> Coalesce(IF HasId(message) THEN message.id
                                                            ELSE JUndefined, JNull),
                         action |-> message.method.v,
                         payload |-> AsPayload(message.params) ],
           respond |-> IF HasId(message) THEN "jsonrpc" ELSE "none" ]
    ELSE IF message.action.t = "string"
    THEN [ ok |-> TRUE,
           request |-> [ id |-> Coalesce(message.id, JNull),
                         action |-> message.action.v,
                         payload |-> AsPayload(message.payload) ],
           respond |-> IF HasId(message) THEN "custom" ELSE "none" ]
    ELSE [ ok |-> FALSE ]

\* normalizeIncomingRequest that takes any jsonrpc version for a request
NormalizeAnyVersion(message) ==
    IF ~ IsRecord(message)
    THEN [ ok |-> FALSE ]
    ELSE IF message.action.t = "string"
    THEN [ ok |-> TRUE,
           request |-> [ id |-> Coalesce(message.id, JNull),
                         action |-> message.action.v,
                         payload |-> AsPayload(message.payload) ],
           respond |-> IF HasId(message) THEN "custom" ELSE "none" ]
    ELSE IF message.jsonrpc.t = "string" /\ message.method.t = "string"
    THEN [ ok |-> TRUE,
           request |-> [ id |-> Coalesce(IF HasId(message) THEN message.id
                                                            ELSE JUndefined, JNull),
                         action |-> message.method.v,
                         payload |-> AsPayload(message.params) ],
           respond |-> IF HasId(message) THEN "jsonrpc" ELSE "none" ]
    ELSE [ ok |-> FALSE ]

\* normalizeIncomingRequest(message): null, or the request and the shape of its
\* respond closure ("none" when respond is undefined)
NormalizeIncomingRequest(message) ==
    IF ~ IsRecord(message)
    THEN [ ok |-> FALSE ]
    ELSE IF message.action.t = "string"
    THEN [ ok |-> TRUE,
           request |-> [ id |-> Coalesce(message.id, JNull),
                         action |-> message.action.v,
                         payload |-> AsPayload(message.payload) ],
           respond |-> IF HasId(message) THEN "custom" ELSE "none" ]
    ELSE IF message.jsonrpc = JStr("2.0") /\ message.method.t = "string"
    THEN [ ok |-> TRUE,
           request |-> [ id |-> Coalesce(IF HasId(message) THEN message.id
                                                            ELSE JUndefined, JNull),
                         action |-> message.method.v,
                         payload |-> AsPayload(message.params) ],
           respond |-> IF HasId(message) THEN "jsonrpc" ELSE "none" ]
    ELSE [ ok |-> FALSE ]

\* a respond closure that reads the id of a request still in flight, when there
\* is one, in place of the id of its own request
RespondSharedId(c00, inv, outcome) ==
    LET c == Called(c00, "respond")
        last == IF c.inflight = { } THEN inv ELSE CHOOSE other \in c.inflight : TRUE
        jsonrpc == IF inv.respond = "jsonrpc" THEN JStr("2.0") ELSE JUndefined
    IN  IF inv.respond = "none"
        THEN c00
        ELSE Send(c, IF outcome.ok
                     THEN OutFrame(JUndefined, jsonrpc, last.request.id, outcome.result,
                                   JUndefined, 0)
                     ELSE OutFrame(JUndefined, jsonrpc, last.request.id, JUndefined,
                                   IF inv.respond = "jsonrpc" THEN JObj(outcome.error)
                                                              ELSE JStr(outcome.error),
                                   IF inv.respond = "jsonrpc" THEN RpcErrorCode ELSE 0))

\* a respond closure that reports results only
RespondDropsFailures(c, inv, outcome) ==
    IF inv.respond = "custom" /\ outcome.ok
    THEN Send(c, OutFrame(JUndefined, JUndefined, inv.request.id, outcome.result,
                          JUndefined, 0))
    ELSE IF inv.respond = "jsonrpc" /\ outcome.ok
    THEN Send(c, OutFrame(JUndefined, JStr("2.0"), inv.request.id, outcome.result,
                          JUndefined, 0))
    ELSE c

\* respond?.(outcome) of the invocation inv
Respond(c00, inv, outcome) ==
    LET c == Called(c00, "respond") IN
    IF inv.respond = "custom"
    THEN Send(c, IF outcome.ok
                 THEN OutFrame(JUndefined, JUndefined, inv.request.id, outcome.result,
                               JUndefined, 0)
                 ELSE OutFrame(JUndefined, JUndefined, inv.request.id, JUndefined,
                               JStr(outcome.error), 0))
    ELSE IF inv.respond = "jsonrpc"
    THEN Send(c, IF outcome.ok
                 THEN OutFrame(JUndefined, JStr("2.0"), inv.request.id, outcome.result,
                               JUndefined, 0)
                 ELSE OutFrame(JUndefined, JStr("2.0"), inv.request.id, JUndefined,
                               JObj(outcome.error), RpcErrorCode))
    ELSE c00

\* a heartbeat test that gives way to the request shapes
IsPingUnlessRequest(message) ==
    /\ IsRecord(message)
    /\ message.type = JStr("ping")
    /\ message.action.t # "string"
    /\ message.method.t # "string"

\* this.isRecord(message) && message.type === 'ping'
IsPing(message) == IsRecord(message) /\ message.type = JStr("ping")

\* a dispatch that does not look for the handler
NoHandlerNeverChecked(c) == FALSE

\* !this.messageHandler
NoHandler(c) == c.messageHandler = 0

\* handleMessage(data) up to its await: the handler has been invoked and the
\* invocation is suspended
HandleMessage(c00, data) ==
    LET c == [ c00 EXCEPT !.received = Append(@, data) ] IN
    IF data.parse = "error"
    THEN Log(c, "Failed to process message", "error")
    ELSE IF IsPing(data)
    THEN LET c1 == Send(c, PongFrame)
         IN  IF c1.threw
             THEN Log([ c1 EXCEPT !.threw = FALSE ], "Failed to process message", "error")
             ELSE c1
    ELSE IF NoHandler(c)
    THEN Log(c, "Message received but no handler is registered; ignoring", "warn")
    ELSE
        LET normalized == NormalizeIncomingRequest(data) IN
        IF ~ normalized.ok
        THEN Log(c, "Ignoring unsupported message format", "warn")
        ELSE
            LET inv == [ request |-> normalized.request,
                         respond |-> normalized.respond,
                         handler |-> c.messageHandler,
                         wire |-> data,    \* history: the frame as received
                         \* history: the socket it arrived on
                         sock |-> IF c.env.arrival THEN c.source ELSE 0 ]
                c1 == Log(c, "Received", "info")
            IN  IF inv \in c1.inflight \/ Cardinality(c1.inflight) >= c1.env.capacity
                THEN [ c1 EXCEPT !.room = FALSE ]
                ELSE [ c1 EXCEPT !.inflight = @ \cup { inv },
                                 !.invoked = Append(@, inv) ]

\* handleMessage after its await: the handler of inv ended with outcome;
\* logThrows: config.onLog throws when called with the "Completed" line
ResumeMessage(c, inv, outcome, logThrows) ==
    LET c0 == [ c EXCEPT !.inflight = @ \ { inv },
                         !.settled = Append(@, [ inv |-> inv, outcome |-> outcome ]) ]
        \* try: respond, then log; an exception of either lands in the catch
        c1 == IF outcome.ok THEN Respond(c0, inv, outcome) ELSE c0
        c1l == IF outcome.ok /\ ~ c1.threw
               THEN IF logThrows
                    THEN [ c1 EXCEPT !.threw = TRUE ]
                    ELSE Log(c1, "Completed", "info")
               ELSE c1
        completed == outcome.ok /\ ~ c1l.threw
        \* catch (error): error.message is the handler's, or that of the exception
        failure == [ ok |-> FALSE, result |-> JUndefined,
                     error |-> IF outcome.ok THEN "InvalidStateError" ELSE outcome.error ]
        c2 == Respond([ c1l EXCEPT !.threw = FALSE ], inv, failure)
    IN  IF completed
        THEN c1l
        ELSE IF c2.threw
        THEN \* outer catch
             Log([ c2 EXCEPT !.threw = FALSE ], "Failed to process message", "error")
        ELSE Log(c2, "Failed", "error")

----------------------------------------------------------------------------
(* The tasks *)

Jitter == 0 .. JitterSteps - 1

\* the owner calls connect()
CallConnect ==
    \E throws \in BOOLEAN, k \in Jitter :
        Commit(Connect(Cur, throws, k), "connect")

\* the owner calls disconnect()
CallDisconnect == Commit(Disconnect(Cur), "disconnect")

\* the owner calls reconnect()
CallReconnect ==
    \E throws \in BOOLEAN, k \in Jitter :
        Commit(Reconnect(Cur, throws, k), "reconnect")

\* the owner calls setMessageHandler(h)
CallSetMessageHandler ==
    \E h \in env.handlers : Commit(SetMessageHandler(Cur, h), "setMessageHandler")

\* socket s delivers its open event
SocketOpen(s) ==
    /\ readyState[s] = "CONNECTING"
    /\ Commit(OnOpen([ Cur EXCEPT !.readyState[s] = "OPEN",
                                  !.established = @ \cup { s },
                                  !.source = s ]), "open")

\* socket s delivers its close event (the peer closed, the connection failed, or
\* the closing handshake started by close() ended)
SocketClose(s) ==
    /\ readyState[s] \in { "CONNECTING", "OPEN", "CLOSING" }
    /\ \E k \in Jitter :
        Commit(OnClose([ Cur EXCEPT !.readyState[s] = "CLOSED", !.source = s ], k),
               "close")

\* socket s delivers an error event
SocketError(s) ==
    /\ readyState[s] \in { "CONNECTING", "OPEN", "CLOSING" }
    /\ Commit(OnError([ Cur EXCEPT !.source = s ]), "error")

\* socket s delivers a message event: ws.onmessage runs handleMessage(event.data).
\* Frames arrive on an open socket.  After close() on an established connection
\* frames still arrive until the closing handshake ends; a browser discards them,
\* other WebSocket implementations deliver them (env.lateFrames).
SocketMessage(s) ==
    /\ \/ readyState[s] = "OPEN"
       \/ env.lateFrames /\ readyState[s] = "CLOSING" /\ s \in established
    /\ \E data \in env.messages :
        Commit(HandleMessage([ Cur EXCEPT !.source = s ], data), "message")

\* the handler invocation inv ends and handleMessage resumes
HandlerSettles(inv) ==
    /\ inv \in inflight
    /\ \E outcome \in env.outcomes :
       \E logThrows \in IF env.faultyLog THEN BOOLEAN ELSE { FALSE } :
        Commit(ResumeMessage(Cur, inv, outcome, logThrows), "settle")

\* timer t expires: it is no longer pending and its callback runs
TimerFire(t) ==
    /\ t \in timers
    /\ \E throws \in BOOLEAN, k \in Jitter :
        Commit(OnTimeout([ Cur EXCEPT !.timers = @ \ { t } ], throws, k),
               "timer")

----------------------------------------------------------------------------
(* The plugin: onActivate, startBridge and onDeactivate of widgets/index.tsx, *)
(* and the clients they construct.  A client of the plugin is the record a  *)
(* task of WebSocketClient works on, between tasks.                         *)

ClientIds == 1 .. MaxClients
ActivationIds == 1 .. MaxActivations

\* the configuration startBridge passes to new WebSocketClient
PluginConfig ==
    [ maxReconnectAttempts |-> Infinity,
      initialReconnectDelay |-> PluginInitialReconnectDelay,
      maxReconnectDelay |-> PluginMaxReconnectDelay ]

\* the surroundings of a client of the plugin; the frames of the peer are left out
PluginEnv ==
    [ messages |-> { }, handlers |-> { 1 }, lateFrames |-> FALSE,
      outcomes |-> Outcomes, faultyLog |-> FALSE, arrival |-> FALSE,
      capacity |-> MaxInflight ]

\* new WebSocketClient({ ... }) in startBridge
NewClient ==
    [ ws |-> 0, reconnectAttempts |-> 0, reconnectTimeout |-> 0, messageHandler |-> 0,
      status |-> "disconnected", isShuttingDown |-> FALSE, config |-> PluginConfig,
      env |-> PluginEnv, source |-> 0,
      readyState |-> [ s \in SocketIds |-> "NONE" ], established |-> { },
      timers |-> { }, inflight |-> { },
      calls |-> << >>, notified |-> << >>, armed |-> << >>, sent |-> << >>,
      logs |-> << >>, closed |-> << >>, settled |-> << >>,
      received |-> << >>, invoked |-> << >>, registering |-> 0,
      sinceDisconnect |-> FALSE, afterReconnect |-> FALSE,
      threw |-> FALSE, room |-> TRUE ]

\* the state a task leaves a client in, as the next task of that client finds it
Rest(c) ==
    [ c EXCEPT !.readyState = Collect(@, c.ws), !.source = 0, !.established = { },
               !.calls = << >>, !.notified = << >>, !.armed = << >>, !.sent = << >>,
               !.logs = << >>, !.closed = << >>, !.settled = << >>,
               !.received = << >>, !.invoked = << >>, !.registering = 0,
               !.sinceDisconnect = FALSE, !.afterReconnect = FALSE ]

\* a client that can never act again: disconnected, no socket left, no timer
Inert(c) ==
    /\ c.ws = 0
    /\ c.timers = { }
    /\ \A s \in SocketIds : c.readyState[s] = "NONE"

\* the ids a new client can take: those of clients the plugin no longer refers to
\* and that can never act again
FreeClients == { i \in ClientIds : i # wsClient /\ Inert(clients[i]) }

\* the fields of the single client of the other specifications
ClientVars ==
    << ws, reconnectAttempts, reconnectTimeout, messageHandler, status,
       isShuttingDown, config, env, readyState, established, timers, inflight,
       op, source, calls, notified, armed, sent, logs, closed, settled, received,
       invoked, raised, registering, sinceDisconnect, afterReconnect >>

\* a task of client i ends in c.  The attempt counter of a client that never
\* gives up is followed up to MaxReconnectAttempts.
ClientCommit(i, c) ==
    /\ c.room
    /\ ~ c.threw
    /\ c.reconnectAttempts <= MaxReconnectAttempts
    /\ clients' = [ clients EXCEPT ![i] = IF Inert(Rest(c)) /\ i # wsClient
                                          THEN NewClient ELSE Rest(c) ]
    /\ UNCHANGED << wsClient, activation, loaded >>
    /\ UNCHANGED ClientVars

\* RemNote activates the plugin: onActivate runs up to its first await
PluginActivate(a) ==
    /\ ~ loaded
    /\ activation[a] \in { "idle", "done" }
    /\ activation' = [ activation EXCEPT ![a] = "registering" ]
    /\ loaded' = TRUE
    /\ UNCHANGED << wsClient, clients >>
    /\ UNCHANGED ClientVars

\* onActivate after its registrations: it calls startBridge, which runs up to
\* await readSettings(plugin)
OnActivate(a) ==
    /\ activation[a] = "registering"
    /\ activation' = [ activation EXCEPT ![a] = "reading" ]
    /\ UNCHANGED << wsClient, clients, loaded >>
    /\ UNCHANGED ClientVars

\* startBridge after await readSettings: the client in wsClient, if any, is
\* disconnected; a new client is constructed, given its handler and connected
StartBridge(a) ==
    /\ activation[a] = "reading"
    /\ \E throws \in BOOLEAN, k \in Jitter :
       \E old \in { IF wsClient # 0
                    THEN [ clients EXCEPT ![wsClient] =
                            IF Inert(Rest(Disconnect(@))) THEN NewClient
                                                          ELSE Rest(Disconnect(@)) ]
                    ELSE clients } :
       \E free \in { { i \in ClientIds : Inert(old[i]) } } :
        /\ free # { }
        /\ \E c \in { Connect(SetMessageHandler(NewClient, 1), throws, k) } :
            /\ c.room
            /\ clients' = [ old EXCEPT ![LeastOf(free)] = Rest(c) ]
            /\ wsClient' = LeastOf(free)
    /\ activation' = [ activation EXCEPT ![a] = "done" ]
    /\ UNCHANGED loaded
    /\ UNCHANGED ClientVars

\* RemNote deactivates the plugin: onDeactivate has no await and runs to its end
OnDeactivate ==
    /\ loaded
    /\ loaded' = FALSE
    /\ clients' = IF wsClient # 0
                  THEN [ clients EXCEPT ![wsClient] =
                            IF Inert(Rest(Disconnect(@))) THEN NewClient
                                                          ELSE Rest(Disconnect(@)) ]
                  ELSE clients
    /\ wsClient' = 0
    /\ UNCHANGED activation
    /\ UNCHANGED ClientVars

\* socket s of client i delivers its open event
ClientSocketOpen(i, s) ==
    /\ clients[i].readyState[s] = "CONNECTING"
    /\ ClientCommit(i, OnOpen([ clients[i] EXCEPT !.readyState[s] = "OPEN",
                                                  !.source = s ]))

\* socket s of client i delivers its close event
ClientSocketClose(i, s) ==
    /\ clients[i].readyState[s] \in { "CONNECTING", "OPEN", "CLOSING" }
    /\ \E k \in Jitter :
        ClientCommit(i, OnClose([ clients[i] EXCEPT !.readyState[s] = "CLOSED",
                                                    !.source = s ], k))

\* timer t of client i expires
ClientTimerFire(i, t) ==
    /\ t \in clients[i].timers
    /\ \E throws \in BOOLEAN, k \in Jitter :
        ClientCommit(i, OnTimeout([ clients[i] EXCEPT !.timers = @ \ { t } ], throws, k))

\* new WebSocketClient(config), in the surroundings e
Constructed(cfg, e) ==
    /\ ws = 0
    /\ reconnectAttempts = 0
    /\ reconnectTimeout = 0
    /\ messageHandler = 0
    /\ status = "disconnected"
    /\ isShuttingDown = FALSE
    /\ config = cfg
    /\ env = e
    /\ readyState = [ s \in SocketIds |-> "NONE" ]
    /\ established = { }
    /\ timers = { }
    /\ inflight = { }
    /\ op = "new"
    /\ source = 0
    /\ calls = << >>
    /\ notified = << >>
    /\ armed = << >>
    /\ sent = << >>
    /\ logs = << >>
    /\ closed = << >>
    /\ settled = << >>
    /\ received = << >>
    /\ invoked = << >>
    /\ raised = FALSE
    /\ registering = 0
    /\ sinceDisconnect = FALSE
    /\ afterReconnect = FALSE
    /\ wsClient = 0
    /\ clients = [ i \in ClientIds |-> NewClient ]
    /\ activation = [ a \in ActivationIds |-> "idle" ]
    /\ loaded = FALSE

\* a client that gives up after MaxReconnectAttempts attempts, with the default delays
Init ==
    Constructed([ maxReconnectAttempts |-> MaxReconnectAttempts,
                  initialReconnectDelay |-> DefaultInitialReconnectDelay,
                  maxReconnectDelay |-> DefaultMaxReconnectDelay ],
                [ messages |-> LifecycleFrames, handlers |-> { 1 },
                  lateFrames |-> FALSE,
                  outcomes |-> Outcomes, faultyLog |-> FALSE, arrival |-> FALSE,
                  capacity |-> MaxInflight ])

Next ==
    \/ CallConnect
    \/ CallDisconnect
    \/ CallReconnect
    \/ CallSetMessageHandler
    \/ \E s \in SocketIds : SocketOpen(s)
    \/ \E s \in SocketIds : SocketClose(s)
    \/ \E s \in SocketIds : SocketError(s)
    \/ \E s \in SocketIds : SocketMessage(s)
    \/ \E inv \in inflight : HandlerSettles(inv)
    \/ \E t \in TimerIds : TimerFire(t)

Spec == Init /\ [][Next]_vars

\* The tasks that act on sockets and timers: the owner's calls, the open and close
\* events, the timer expiries.
NextConnection ==
    \/ CallConnect
    \/ CallDisconnect
    \/ CallReconnect
    \/ \E s \in SocketIds : SocketOpen(s)
    \/ \E s \in SocketIds : SocketClose(s)
    \/ \E t \in TimerIds : TimerFire(t)

SomeTimerFires == \E t \in TimerIds : TimerFire(t)

\* The client when timers are sure to expire: the event loop runs the callback of
\* a timer that setTimeout has armed, unless clearTimeout cancels it first.
SpecFair == Init /\ [][NextConnection]_vars /\ WF_vars(SomeTimerFires)

\* a constructor whose default for maxReconnectAttempts is finite
InitFinite ==
    Constructed([ maxReconnectAttempts |-> MaxReconnectAttempts,
                  initialReconnectDelay |-> DefaultInitialReconnectDelay,
                  maxReconnectDelay |-> DefaultMaxReconnectDelay ],
                [ messages |-> { }, handlers |-> { }, lateFrames |-> FALSE,
                  outcomes |-> Outcomes, faultyLog |-> FALSE, arrival |-> FALSE,
                  capacity |-> MaxInflight ])

\* The default client (it never gives up) facing a peer that is down: sockets
\* cannot be constructed or close before they open, and every expiry retries.
\* The run is followed until the counter reaches MaxExponent.
InitDefault ==
    Constructed([ maxReconnectAttempts |-> Infinity,
                  initialReconnectDelay |-> DefaultInitialReconnectDelay,
                  maxReconnectDelay |-> DefaultMaxReconnectDelay ],
                [ messages |-> { }, handlers |-> { }, lateFrames |-> FALSE,
                  outcomes |-> Outcomes, faultyLog |-> FALSE, arrival |-> FALSE,
                  capacity |-> MaxInflight ])

NextBackoff ==
    \/ reconnectAttempts < MaxExponent /\ CallConnect
    \/ reconnectAttempts < MaxExponent /\ CallDisconnect
    \/ reconnectAttempts < MaxExponent /\ CallReconnect
    \/ reconnectAttempts < MaxExponent /\ \E s \in SocketIds : SocketClose(s)
    \/ reconnectAttempts < MaxExponent /\ \E t \in TimerIds : TimerFire(t)

SpecBackoff == InitDefault /\ [][NextBackoff]_vars

\* A client that never retries (maxReconnectAttempts: 0), so that no timer is ever
\* armed, with a peer that sends every kind of frame and a WebSocket
\* implementation that delivers late frames.  The owner connects and disconnects;
\* reconnect() is disconnect() followed by connect().
InitDispatch ==
    Constructed([ maxReconnectAttempts |-> 0,
                  initialReconnectDelay |-> DefaultInitialReconnectDelay,
                  maxReconnectDelay |-> DefaultMaxReconnectDelay ],
                [ messages |-> DispatchFrames, handlers |-> { 1 },
                  lateFrames |-> TRUE,
                  outcomes |-> SettleOutcomes, faultyLog |-> FALSE, arrival |-> FALSE,
                  capacity |-> MaxInflight ])

NextDispatch ==
    \/ CallConnect
    \/ CallDisconnect
    \/ CallSetMessageHandler
    \/ \E s \in SocketIds : SocketOpen(s)
    \/ \E s \in SocketIds : SocketClose(s)
    \/ \E s \in SocketIds : SocketMessage(s)
    \/ \E inv \in inflight : HandlerSettles(inv)

SpecDispatch == InitDispatch /\ [][NextDispatch]_vars

\* An owner that registers one handler and later another, while requests are
\* being served; the client never retries.
HandlerIds == { 1, 2 }

InitHandlers ==
    Constructed([ maxReconnectAttempts |-> 0,
                  initialReconnectDelay |-> DefaultInitialReconnectDelay,
                  maxReconnectDelay |-> DefaultMaxReconnectDelay ],
                [ messages |-> LifecycleFrames, handlers |-> HandlerIds,
                  lateFrames |-> FALSE,
                  outcomes |-> Outcomes, faultyLog |-> FALSE, arrival |-> FALSE,
                  capacity |-> MaxInflight ])

NextHandlers ==
    \/ CallConnect
    \/ CallDisconnect
    \/ CallSetMessageHandler
    \/ \E s \in SocketIds : SocketOpen(s)
    \/ \E s \in SocketIds : SocketClose(s)
    \/ \E s \in SocketIds : SocketMessage(s)
    \/ \E inv \in inflight : HandlerSettles(inv)

SpecHandlers == InitHandlers /\ [][NextHandlers]_vars

----------------------------------------------------------------------------
(* Claims *)

Range(seq) == { seq[i] : i \in DOMAIN seq }

TransportEvents == { "open", "message", "close", "error" }

\* C1: after disconnect(), and until connect() or reconnect() is called, no
\* transport event (open, message, close, error) of any socket arms a reconnect
\* timer.
C1_NoReconnectAfterDisconnect ==
    (sinceDisconnect /\ op \in TransportEvents) => armed = << >>

\* a close event was handled after disconnect() and before any connect()
C1_Witness ==
    /\ sinceDisconnect
    /\ op = "close"
    /\ source # 0
    /\ armed = << >>

\* C2: when disconnect() has returned, no reconnect timer is pending until
\* connect() or reconnect() is called: every timer armed before was cancelled.
C2_DisconnectCancelsTimers ==
    sinceDisconnect => timers = { }

\* C3: under fair timer expiry, whenever a reconnect timer is pending, a timer
\* callback that calls connect() eventually runs, unless disconnect() is called
\* first.
C3_TimerLeadsToConnect ==
    (timers # { }) ~>
        \/ op = "timer" /\ "connect" \in Range(calls)
        \/ "disconnect" \in Range(calls)

\* a timer callback has run connect(), which opened a socket
C3_Witness ==
    /\ op = "timer"
    /\ "connect" \in Range(calls)
    /\ ws # 0
    /\ readyState[ws] = "CONNECTING"

\* C4 as stated: once the counter is at the configured maximum, no timer is armed
\* and no timer-driven connection attempt is made, and the counter stays there,
\* until reconnect() is called.
C4_ExhaustedUntilReconnect ==
    [][ (reconnectAttempts >= config.maxReconnectAttempts /\ op' # "reconnect")
            => /\ armed' = << >>
               /\ op' # "timer"
               /\ reconnectAttempts' >= config.maxReconnectAttempts ]_vars

\* C4 as amended: while the counter is at the configured maximum no task but
\* reconnect() arms a timer, and the counter changes only by being reset: to zero
\* by a successful open, or by reconnect() (which may schedule one reconnect).
C4_ExhaustedUntilReset ==
    [][ reconnectAttempts >= config.maxReconnectAttempts
            => /\ armed' # << >> => op' = "reconnect"
               /\ reconnectAttempts' # reconnectAttempts
                    => \/ op' = "open" /\ reconnectAttempts' = 0
                       \/ op' = "reconnect" /\ reconnectAttempts' <= 1 ]_vars

\* a close event found the counter at the maximum and armed nothing
C4_Witness ==
    /\ op = "close"
    /\ ~ isShuttingDown
    /\ reconnectAttempts = config.maxReconnectAttempts
    /\ armed = << >>
    /\ "scheduleReconnect" \in Range(calls)

\* C6: the counter never exceeds the configured maximum; it grows only in a task
\* that arms a timer, and then by one; after each arming it is one more than the
\* value the backoff was computed from.
C6_CounterCountsTimers ==
    /\ [](reconnectAttempts <= config.maxReconnectAttempts)
    /\ [](armed # << >> =>
            Len(armed) = 1 /\ reconnectAttempts = armed[1].attempts + 1)
    /\ [][ reconnectAttempts' > reconnectAttempts
            => armed' # << >> /\ reconnectAttempts' = reconnectAttempts + 1 ]_vars

\* the arming of a timer took the counter to the configured maximum
C6_Witness ==
    /\ armed # << >>
    /\ reconnectAttempts = config.maxReconnectAttempts
    /\ armed[1].attempts = config.maxReconnectAttempts - 1

\* C7: the first backoff computed after reconnect() reads attempt count zero: its
\* delay is the initial delay (capped by the maximum delay) plus jitter.
C7_ReconnectResetsBackoff ==
    \A i \in DOMAIN armed :
        armed[i].afterReconnect =>
            /\ armed[i].attempts = 0
            /\ armed[i].delay >= Min(config.initialReconnectDelay,
                                     config.maxReconnectDelay) * DelayScale
            /\ armed[i].delay < Min(config.initialReconnectDelay,
                                    config.maxReconnectDelay) * 13 * JitterSteps

\* a close event after reconnect() scheduled the first reconnect since
C7_Witness ==
    /\ op = "close"
    /\ armed # << >>
    /\ armed[1].afterReconnect

\* the statuses of a task in order: the one it started with, then each one notified
StatusWalk(before, notes) == << before >> \o notes

\* C8: the observer is called once per change of status and never with the status
\* already current: in every task each notification differs from the status before
\* it, and the last one is the status the client ends with.
C8_ObserverSeesEachChange ==
    [][ LET walk == StatusWalk(status, notified')
        IN  /\ \A i \in 1 .. Len(walk) - 1 : walk[i] # walk[i + 1]
            /\ walk[Len(walk)] = status' ]_vars

\* reconnect() on a connected client notified disconnected, then connecting
C8_Witness ==
    /\ op = "reconnect"
    /\ notified = << "disconnected", "connecting" >>
    /\ status = "connecting"

\* C9: the status moves only disconnected -> connecting -> connected ->
\* disconnected, or connecting -> disconnected; never disconnected -> connected.
C9_StatusPath ==
    [][ LET walk == StatusWalk(status, notified')
        IN  \A i \in 1 .. Len(walk) - 1 :
                << walk[i], walk[i + 1] >> \in
                    { << "disconnected", "connecting" >>,
                      << "connecting", "connected" >>,
                      << "connected", "disconnected" >>,
                      << "connecting", "disconnected" >> } ]_vars

\* C5 as stated: every armed delay, computed from attempt count a, lies within
\* [initialDelay * 2^a, initialDelay * 2^a * 1.3] and is at most maxDelay * 1.3.
C5_DelayWithinExponentialBand ==
    \A i \in DOMAIN armed :
        LET exponential == config.initialReconnectDelay * Pow2(armed[i].attempts)
        IN  /\ armed[i].delay >= exponential * DelayScale
            /\ armed[i].delay <= exponential * 13 * JitterSteps
            /\ armed[i].delay <= config.maxReconnectDelay * 13 * JitterSteps

\* C5 as amended: with base = min(initialDelay * 2^a, maxDelay), every armed
\* delay lies within [base, 1.3 * base): it is at most initialDelay * 2^a * 1.3
\* and at most maxDelay * 1.3, and at least initialDelay * 2^a only while that
\* does not exceed maxDelay.
C5_DelayWithinCappedBand ==
    \A i \in DOMAIN armed :
        LET exponential == config.initialReconnectDelay * Pow2(armed[i].attempts)
            base == IF exponential <= config.maxReconnectDelay
                    THEN exponential ELSE config.maxReconnectDelay
        IN  /\ armed[i].delay >= base * DelayScale
            /\ armed[i].delay < base * 13 * JitterSteps

\* a delay was armed from an attempt count whose exponential exceeds the maximum
\* delay, with jitter
C5_Witness ==
    /\ armed # << >>
    /\ config.initialReconnectDelay * Pow2(armed[1].attempts) > config.maxReconnectDelay
    /\ armed[1].delay > config.maxReconnectDelay * DelayScale

\* C10 as stated: for every request that carried an id field (null included) and
\* was handed to the handler, a response with that id is sent when the handler
\* completes, whether it returned or threw.
C10_ResponseForEveryId ==
    \A i \in DOMAIN settled :
        settled[i].inv.wire.id.t # "undefined" =>
            \E j \in DOMAIN sent : sent[j].frame.id = settled[i].inv.wire.id

\* C10 as amended: such a response is sent whenever the client's current socket is
\* open when the handler completes; it is the only frame sent then, it goes to
\* that socket, and it carries the result of the outcome, if any, or an error.
C10_ResponseForEveryIdWhileOpen ==
    \A i \in DOMAIN settled :
        ( /\ settled[i].inv.wire.id.t # "undefined"
          /\ ws # 0
          /\ readyState[ws] = "OPEN" )
        => /\ Len(sent) = 1
           /\ sent[1].sock = ws
           /\ sent[1].frame.id = settled[i].inv.wire.id
           /\ sent[1].frame.result.t # "undefined"
                => /\ settled[i].outcome.ok
                   /\ sent[1].frame.result = settled[i].outcome.result
           /\ ~ settled[i].outcome.ok => sent[1].frame.error.t # "undefined"

\* a request with id null whose handler threw was answered with id null
C10_Witness ==
    /\ op = "settle"
    /\ settled # << >>
    /\ settled[1].inv.wire.id = JNull
    /\ ~ settled[1].outcome.ok
    /\ sent # << >>
    /\ sent[1].frame.id = JNull

----------------------------------------------------------------------------
(* Claims on dispatch.  The shapes of the inbound frames, as the            *)
(* specification classifies them.                                           *)

\* the heartbeat shape: an object whose type is "ping"
Heartbeat(data) ==
    data.parse = "ok" /\ data.t = "object" /\ data.type = JStr("ping")

\* a request shape: not a heartbeat, and an object with a string action, or with
\* jsonrpc "2.0" and a string method
RequestShape(data) ==
    /\ data.parse = "ok"
    /\ data.t = "object"
    /\ ~ Heartbeat(data)
    /\ \/ data.action.t = "string"
       \/ data.jsonrpc = JStr("2.0") /\ data.method.t = "string"

\* neither: unparseable, not an object, or an object of no recognized shape
Unrecognized(data) == ~ Heartbeat(data) /\ ~ RequestShape(data)

\* C11: a request of either format that has no id field causes no outbound frame:
\* not when it arrives (handler registered or not) and not when its handler
\* returns or throws.
C11_NoResponseWithoutId ==
    /\ \A i \in DOMAIN received :
        (RequestShape(received[i]) /\ received[i].id.t = "undefined") => sent = << >>
    /\ \A i \in DOMAIN settled :
        settled[i].inv.wire.id.t = "undefined" => sent = << >>

\* the handler of a JSON-RPC request without id threw while the socket was open,
\* and nothing was sent
C11_Witness ==
    /\ op = "settle"
    /\ settled # << >>
    /\ settled[1].inv.wire.id = JUndefined
    /\ settled[1].inv.wire.jsonrpc = JStr("2.0")
    /\ ~ settled[1].outcome.ok
    /\ ws # 0
    /\ readyState[ws] = "OPEN"
    /\ sent = << >>

C13_PingBypassesHandler ==
    /\ \A i \in DOMAIN received :
        Heartbeat(received[i]) =>
            /\ invoked = << >>
            /\ \A j \in DOMAIN sent : sent[j].frame = PongFrame
    /\ \A inv \in inflight : ~ Heartbeat(inv.wire)

\* a heartbeat with action, payload and id arrived with a handler registered and
\* caused the pong alone
C13_Witness ==
    /\ op = "message"
    /\ received # << >>
    /\ Heartbeat(received[1])
    /\ received[1].action.t = "string"
    /\ received[1].id.t = "string"
    /\ messageHandler # 0
    /\ invoked = << >>
    /\ sent = << [ sock |-> ws, frame |-> PongFrame ] >>

\* C15: while no handler is registered, a frame that is not a heartbeat invokes
\* nothing and causes no outbound frame.
C15_DroppedWithoutHandler ==
    (op = "message" /\ messageHandler = 0) =>
        \A i \in DOMAIN received :
            ~ Heartbeat(received[i]) => invoked = << >> /\ sent = << >>

\* a request with an id arrived on the open socket of a client without handler:
\* a warning, no invocation, no frame
C15_Witness ==
    /\ op = "message"
    /\ messageHandler = 0
    /\ received = << CustomFrame(JNum("1"), JStr("noop"), JObj("p")) >>
    /\ ws # 0
    /\ readyState[ws] = "OPEN"
    /\ invoked = << >>
    /\ sent = << >>
    /\ Len(logs) = 1
    /\ logs[1].level = "warn"

\* C16: a frame that does not parse or has no recognized shape causes no outbound
\* frame and no invocation; one line is logged, no exception escapes, and the
\* status, the counter, the timers, the sockets and the invocations in flight are
\* as before.
C16_UnrecognizedIsDropped ==
    [][ (op' = "message" /\ Unrecognized(received'[1]))
            => /\ sent' = << >>
               /\ invoked' = << >>
               /\ Len(logs') = 1
               /\ logs'[1].level \in { "warn", "error" }
               /\ ~ raised'
               /\ UNCHANGED << status, reconnectAttempts, reconnectTimeout, timers,
                               ws, readyState, isShuttingDown, inflight >> ]_vars

\* a frame with jsonrpc "1.0", a method and an id arrived with a handler
\* registered and was ignored
C16_Witness ==
    /\ op = "message"
    /\ received # << >>
    /\ received[1].jsonrpc = JStr("1.0")
    /\ received[1].id.t = "string"
    /\ messageHandler # 0
    /\ ws # 0
    /\ readyState[ws] = "OPEN"
    /\ sent = << >>
    /\ logs = << [ message |-> "Ignoring unsupported message format",
                   level |-> "warn" ] >>

\* the failure response the specification gives for the request wire and the
\* error message: {id, error: message}, or
\* {jsonrpc: "2.0", id, error: {code: -32000, message}}
FailureFrame(wire, message) ==
    IF wire.action.t = "string"
    THEN [ type |-> JUndefined, jsonrpc |-> JUndefined, id |-> wire.id,
           result |-> JUndefined, error |-> JStr(message), code |-> 0 ]
    ELSE [ type |-> JUndefined, jsonrpc |-> JStr("2.0"), id |-> wire.id,
           result |-> JUndefined, error |-> JObj(message), code |-> RpcErrorCode ]

\* C14 as stated: when the handler of a request with an id throws, the failure
\* response of the request's format, with the error's message, is sent, and no
\* exception escapes.
C14_FailureIsReported ==
    \A i \in DOMAIN settled :
        ( /\ ~ settled[i].outcome.ok
          /\ settled[i].inv.wire.id.t # "undefined" )
        => /\ ~ raised
           /\ \E j \in DOMAIN sent :
                sent[j].frame = FailureFrame(settled[i].inv.wire, settled[i].outcome.error)

\* C14 as amended: no exception escapes, and the failure response is sent, to the
\* current socket and alone, whenever the current socket is open at that moment.
C14_FailureIsReportedWhileOpen ==
    \A i \in DOMAIN settled :
        ( /\ ~ settled[i].outcome.ok
          /\ settled[i].inv.wire.id.t # "undefined" )
        => /\ ~ raised
           /\ (ws # 0 /\ readyState[ws] = "OPEN") =>
                sent = << [ sock |-> ws,
                            frame |-> FailureFrame(settled[i].inv.wire,
                                                   settled[i].outcome.error) ] >>

\* the handler of a JSON-RPC request with a numeric id threw and the error
\* response with code -32000 was sent
C14_Witness ==
    /\ op = "settle"
    /\ settled # << >>
    /\ ~ settled[1].outcome.ok
    /\ settled[1].inv.wire.jsonrpc = JStr("2.0")
    /\ settled[1].inv.wire.id.t = "number"
    /\ sent # << >>
    /\ sent[1].frame.code = RpcErrorCode
    /\ sent[1].frame.error = JObj("boom")
    /\ sent[1].frame.id = settled[1].inv.wire.id

----------------------------------------------------------------------------
(* Claims on connect() and the default configuration                        *)

\* C17: connect() called while the current socket is open or connecting changes
\* nothing: no socket is created, the status, the shutdown flag, the counter, the
\* timers and the current socket are as before, and the observer is not called.
C17_ConnectIsIdempotent ==
    [][ ( /\ op' = "connect"
          /\ ws # 0
          /\ readyState[ws] \in { "OPEN", "CONNECTING" } )
        => /\ UNCHANGED << ws, readyState, status, isShuttingDown, reconnectAttempts,
                           reconnectTimeout, timers >>
           /\ notified' = << >>
           /\ armed' = << >>
           /\ closed' = << >> ]_vars

\* connect() returned at once on a client whose socket is connecting
C17_Witness ==
    /\ op = "connect"
    /\ calls = << "connect" >>
    /\ logs = << >>
    /\ notified = << >>
    /\ ws # 0
    /\ readyState[ws] = "CONNECTING"
    /\ status = "connecting"

\* a client whose connection state is that of a new one
Fresh ==
    /\ ws = 0
    /\ status = "disconnected"
    /\ reconnectAttempts = 0
    /\ reconnectTimeout = 0
    /\ timers = { }
    /\ ~ isShuttingDown
    /\ \A s \in SocketIds : readyState[s] = "NONE"

\* C19: when the construction of the socket throws in connect() on a fresh client,
\* no exception escapes, the observer sees connecting then disconnected, exactly
\* one timer is armed, with a delay in [initialDelay, 1.3 * initialDelay), and the
\* counter becomes 1.
C19_FirstAttemptThrows ==
    [][ ( /\ Fresh
          /\ op' = "connect"
          /\ \E i \in DOMAIN logs' : logs'[i].message = "Connection failed" )
        => /\ ~ raised'
           /\ notified' = << "connecting", "disconnected" >>
           /\ status' = "disconnected"
           /\ ws' = 0
           /\ Len(armed') = 1
           /\ timers' = { armed'[1].timer }
           /\ reconnectTimeout' = armed'[1].timer
           /\ armed'[1].delay >= config.initialReconnectDelay * DelayScale
           /\ armed'[1].delay < config.initialReconnectDelay * 13 * JitterSteps
           /\ reconnectAttempts' = 1 ]_vars

\* the first connect() of a client threw: one timer, with jitter, counter 1
C19_Witness ==
    /\ op = "connect"
    /\ calls = << "connect", "scheduleReconnect" >>
    /\ notified = << "connecting", "disconnected" >>
    /\ ws = 0
    /\ \A s \in SocketIds : readyState[s] = "NONE"
    /\ reconnectAttempts = 1
    /\ Len(armed) = 1
    /\ timers = { armed[1].timer }
    /\ armed[1].delay > config.initialReconnectDelay * DelayScale
    /\ ~ raised

\* C20: with the default configuration every close event handled while the
\* shutdown flag is unset arms a reconnect timer, whatever the counter, and the
\* exhaustion branch is never taken.
C20_DefaultNeverGivesUp ==
    /\ (op = "close" /\ ~ isShuttingDown) => Len(armed) = 1
    /\ \A i \in DOMAIN logs : logs[i].message # "Max reconnection attempts reached"

\* a close event after MaxExponent - 1 scheduled reconnects armed one more
C20_Witness ==
    /\ op = "close"
    /\ ~ isShuttingDown
    /\ config.maxReconnectAttempts = Infinity
    /\ Len(armed) = 1
    /\ armed[1].attempts = MaxExponent - 1

\* C18: setMessageHandler(h) makes h the registered handler and leaves the
\* invocations in flight alone; a message invokes the handler registered when it
\* arrives and no other; an invocation of a handler that has been replaced still
\* sends its response when it completes (to the current socket, if open).
C18_HandlerIsReplaced ==
    [][ /\ op' = "setMessageHandler"
            => /\ messageHandler' = registering'
               /\ inflight' = inflight
               /\ sent' = << >>
        /\ op' = "message"
            => /\ Len(invoked') <= 1
               /\ \A i \in DOMAIN invoked' :
                    /\ invoked'[i].handler = messageHandler
                    /\ inflight' = inflight \cup { invoked'[i] }
        /\ op' = "settle"
            => \A i \in DOMAIN settled' :
                 ( /\ settled'[i].inv \in inflight
                   /\ settled'[i].inv.handler # messageHandler
                   /\ settled'[i].inv.wire.id.t # "undefined"
                   /\ ws # 0
                   /\ readyState[ws] = "OPEN" )
                 => /\ Len(sent') = 1
                    /\ sent'[1].frame.id = settled'[i].inv.wire.id ]_vars

\* an invocation of the handler registered first completed after the second
\* handler was registered, and its response was sent
C18_Witness ==
    /\ op = "settle"
    /\ settled # << >>
    /\ messageHandler # 0
    /\ settled[1].inv.handler # messageHandler
    /\ sent # << >>
    /\ sent[1].frame.id = settled[1].inv.wire.id

\* The plugin in RemNote: activations and deactivations alternate, in any
\* interleaving with the awaits of onActivate and with the events of the
\* clients.
InitPlugin == Constructed(PluginConfig, PluginEnv)

NextPlugin ==
    \/ \E a \in ActivationIds : PluginActivate(a)
    \/ \E a \in ActivationIds : OnActivate(a)
    \/ \E a \in ActivationIds : StartBridge(a)
    \/ OnDeactivate
    \/ \E i \in ClientIds, s \in SocketIds : ClientSocketOpen(i, s)
    \/ \E i \in ClientIds, s \in SocketIds : ClientSocketClose(i, s)
    \/ \E i \in ClientIds, t \in TimerIds : ClientTimerFire(i, t)

SpecPlugin == InitPlugin /\ [][NextPlugin]_vars

\* the frames of a run that is about requests served at the same time: one
\* request of each format, with different ids
OverlapFrames ==
    { CustomFrame(JNum("1"), JStr("noop"), JObj("p")),
      RpcFrame(JNum("2"), JStr("noop"), JObj("p")) }

\* A client that never retries, serving up to MaxOverlap requests at a time for a
\* peer that sends requests only, with a log observer that may throw.  The socket
\* a request arrived on is recorded.
InitOverlap ==
    Constructed([ maxReconnectAttempts |-> 0,
                  initialReconnectDelay |-> DefaultInitialReconnectDelay,
                  maxReconnectDelay |-> DefaultMaxReconnectDelay ],
                [ messages |-> OverlapFrames, handlers |-> { 1 },
                  lateFrames |-> FALSE,
                  outcomes |-> Outcomes, faultyLog |-> TRUE, arrival |-> TRUE,
                  capacity |-> MaxOverlap ])

NextOverlap ==
    \/ CallConnect
    \/ CallDisconnect
    \/ CallReconnect
    \/ CallSetMessageHandler
    \/ \E s \in SocketIds : SocketOpen(s)
    \/ \E s \in SocketIds : SocketClose(s)
    \/ \E s \in SocketIds : SocketMessage(s)
    \/ \E inv \in inflight : HandlerSettles(inv)

SpecOverlap == InitOverlap /\ [][NextOverlap]_vars

\* the values a field of a frame can have, by JSON type: absent, null, a number,
\* an array, an object
FieldValues(name) == { JUndefined, JNull, JNum("3"), JArr(name), JObj(name) }

\* the frames of a run that is about normalizeIncomingRequest, all with an id:
\* custom requests and JSON-RPC requests with an empty and a non-empty name and
\* every kind of payload; messages with the fields of both shapes; and a
\* heartbeat that has the fields of both
NormalizeFrames ==
    { ObjectFrame(JUndefined, action, JUndefined, JUndefined, JNum("1"), payload,
                  JObj("params")) :
        action \in { JStr(""), JStr("noop") }, payload \in FieldValues("payload") }
    \cup { ObjectFrame(JUndefined, JUndefined, JStr("2.0"), method, JNum("1"),
                       JObj("payload"), params) :
            method \in { JStr(""), JStr("call") }, params \in FieldValues("params") }
    \cup { ObjectFrame(type, action, JStr("2.0"), JStr("call"), JNum("1"),
                       JObj("payload"), JObj("params")) :
            type \in { JUndefined, JStr("ping") },
            action \in { JStr(""), JStr("noop"), JNum("42") } }

\* A client that never retries, with a handler registered once it is connected,
\* and a peer that sends every frame of NormalizeFrames.
InitNormalize ==
    Constructed([ maxReconnectAttempts |-> 0,
                  initialReconnectDelay |-> DefaultInitialReconnectDelay,
                  maxReconnectDelay |-> DefaultMaxReconnectDelay ],
                [ messages |-> NormalizeFrames, handlers |-> { 1 },
                  lateFrames |-> FALSE,
                  outcomes |-> Outcomes, faultyLog |-> FALSE, arrival |-> FALSE,
                  capacity |-> MaxInflight ])

NextNormalize ==
    \/ status = "disconnected" /\ CallConnect
    \/ messageHandler = 0 /\ CallSetMessageHandler
    \/ \E s \in SocketIds : SocketOpen(s)
    \/ \E s \in SocketIds : SocketMessage(s)
    \/ \E inv \in inflight : HandlerSettles(inv)

SpecNormalize == InitNormalize /\ [][NextNormalize]_vars

----------------------------------------------------------------------------
(* Claims on responses                                                      *)

\* C21: a response has the format of its request: to a JSON-RPC request, jsonrpc
\* "2.0" and, on failure, an error object with code -32000; to a custom request,
\* no jsonrpc field and the error as a string; and every response carries
\* exactly one of result and error.
C21_ResponseMatchesFormat ==
    \A i \in DOMAIN settled : \A j \in DOMAIN sent :
        LET wire == settled[i].inv.wire
            frame == sent[j].frame
        IN  /\ wire.action.t = "string"
                => /\ frame.jsonrpc = JUndefined
                   /\ frame.error.t \in { "undefined", "string" }
                   /\ frame.code = 0
            /\ wire.action.t # "string"
                => /\ frame.jsonrpc = JStr("2.0")
                   /\ frame.error.t # "undefined"
                        => frame.error.t = "object" /\ frame.code = RpcErrorCode
            /\ (frame.result.t # "undefined") # (frame.error.t # "undefined")

----------------------------------------------------------------------------
(* Claims on the sockets, the timers and the status                         *)

\* the sockets of the client that are open or connecting
LiveSockets == { s \in SocketIds : readyState[s] \in { "OPEN", "CONNECTING" } }

\* C23: a reconnect timer is pending only while no socket is open or connecting:
\* a pending timer and an open or connecting current socket never coexist.
C23_TimerExcludesLiveSocket ==
    timers # { } => ~ (ws # 0 /\ ws \in LiveSockets)

\* C24: at most one reconnect timer is pending at any time, and the stored timer
\* handle refers to it.
C24_SingleTimer ==
    /\ Cardinality(timers) <= 1
    /\ timers \subseteq { reconnectTimeout }

\* C25: at most one socket created by the client is open or connecting, and it
\* is the current socket.
C25_OneTransport ==
    /\ Cardinality(LiveSockets) <= 1
    /\ LiveSockets \subseteq { ws }

\* reconnect() has replaced a socket that is still closing by a new, connecting
\* one
C25_Witness ==
    /\ op = "reconnect"
    /\ ws # 0
    /\ readyState[ws] = "CONNECTING"
    /\ \E s \in SocketIds \ { ws } : readyState[s] = "CLOSING"

\* C29: the status is connected if and only if the current socket is open, and
\* connecting if and only if the current socket is connecting.
C29_StatusReflectsSocket ==
    /\ status = "connected" <=> (ws # 0 /\ readyState[ws] = "OPEN")
    /\ status = "connecting" <=> (ws # 0 /\ readyState[ws] = "CONNECTING")

\* C30: the close event of a socket that is not the current one leaves status,
\* attempt counter and reconnect timer unchanged.
C30_StaleCloseIsIgnored ==
    [][ op' = "close" /\ source' # ws
            => /\ UNCHANGED << status, reconnectAttempts, reconnectTimeout, timers >>
               /\ notified' = << >>
               /\ armed' = << >> ]_vars

----------------------------------------------------------------------------
(* Claims on requests served at the same time                               *)

\* C22: a request that arrives while an earlier invocation is still suspended is
\* dispatched at once; and when an invocation completes, in whatever order, the
\* others stay in flight and every frame sent carries the id of the completed
\* request, with its result or its error.
C22_InvocationsOverlap ==
    [][ /\ op' = "message" /\ inflight # { } /\ messageHandler # 0
            => /\ Len(invoked') = 1
               /\ invoked'[1].wire = received'[1]
               /\ invoked'[1] \notin inflight
               /\ inflight' = inflight \cup { invoked'[1] }
        /\ op' = "settle"
            => /\ Len(settled') = 1
               /\ settled'[1].inv \in inflight
               /\ inflight' = inflight \ { settled'[1].inv }
               /\ \A j \in DOMAIN sent' :
                    LET frame == sent'[j].frame
                        outcome == settled'[1].outcome
                    IN  /\ frame.id = settled'[1].inv.wire.id
                        /\ frame.result.t # "undefined"
                            => outcome.ok /\ frame.result = outcome.result
                        /\ ~ outcome.ok
                            => /\ frame.result.t = "undefined"
                               /\ frame.error.v = outcome.error ]_vars

\* an invocation has completed and its response was sent while another request
\* was still being served
C22_Witness ==
    /\ op = "settle"
    /\ inflight # { }
    /\ Len(sent) = 1
    /\ sent[1].frame.id = settled[1].inv.wire.id
    /\ \A inv \in inflight : inv.wire.id # sent[1].frame.id

\* C26: the respond capability of an inbound message is invoked at most once and
\* at most one response is sent for it, also when the send or the log observer
\* throws.
C26_RespondAtMostOnce ==
    op = "settle"
        => /\ Cardinality({ j \in DOMAIN calls : calls[j] = "respond" }) <= 1
           /\ Len(sent) <= 1

\* C28: a response is sent only on the socket its request arrived on: when that
\* socket was closed or replaced while the handler was outstanding, completing
\* the handler sends nothing on another socket, and no exception escapes.
C28_ResponseOnArrivalSocket ==
    op = "settle"
        => /\ ~ raised
           /\ \A i \in DOMAIN settled : \A j \in DOMAIN sent :
                sent[j].sock = settled[i].inv.sock

----------------------------------------------------------------------------
(* Claims on reconnect(), disconnect() and the open event                   *)

\* C31: every open event sets the attempt counter to zero and the status to
\* connected; from a counter at zero, the next backoff is computed from attempt
\* count zero, with the initial delay as its base, and the counter leaves zero
\* only in a task that computes it.
C31_OpenResetsBackoff ==
    [][ /\ op' = "open" => reconnectAttempts' = 0 /\ status' = "connected"
        /\ reconnectAttempts = 0 /\ armed' # << >>
            => /\ armed'[1].attempts = 0
               /\ armed'[1].delay >= Min(config.initialReconnectDelay,
                                         config.maxReconnectDelay) * DelayScale
               /\ armed'[1].delay < Min(config.initialReconnectDelay,
                                        config.maxReconnectDelay) * 13 * JitterSteps
        /\ reconnectAttempts = 0 /\ reconnectAttempts' # 0 => armed' # << >> ]_vars

\* a socket has opened while the timer armed by the failure before it, which
\* counted an attempt, is still the stored timer
C31_Witness ==
    /\ op = "open"
    /\ reconnectAttempts = 0
    /\ reconnectTimeout # 0
    /\ reconnectTimeout \in timers

\* C32: reconnect() ends with the shutdown flag cleared, the counter at zero,
\* every timer that was pending cancelled, the previous socket closed with code
\* 1000, and a fresh socket connecting with status connecting; or, when the
\* construction throws, with status disconnected and one timer armed.
C32_ReconnectStartsAfresh ==
    op = "reconnect"
        => /\ ~ isShuttingDown
           /\ reconnectAttempts = 0
           /\ timers \subseteq { armed[i].timer : i \in DOMAIN armed }
           /\ \A i \in DOMAIN closed : closed[i].code = NormalClosure
           /\ LiveSockets \subseteq { ws }
           /\ \/ /\ ws # 0
                 /\ readyState[ws] = "CONNECTING"
                 /\ status = "connecting"
                 /\ armed = << >>
              \/ /\ status = "disconnected"
                 /\ Len(armed) = 1

\* C33: a disconnect() that follows a disconnect() changes no field of the
\* client, no socket and no timer, closes nothing and notifies nobody; the flag
\* stays set, there is no socket and no stored timer, the status is disconnected.
C33_DisconnectIsIdempotent ==
    [][ op = "disconnect" /\ op' = "disconnect"
            => /\ UNCHANGED << ws, reconnectAttempts, reconnectTimeout, messageHandler,
                               status, isShuttingDown, readyState, timers, inflight >>
               /\ isShuttingDown'
               /\ ws' = 0
               /\ reconnectTimeout' = 0
               /\ status' = "disconnected"
               /\ closed' = << >>
               /\ notified' = << >> ]_vars

\* disconnect() has run again while the socket closed by the first call is still
\* closing
C33_Witness ==
    /\ op = "disconnect"
    /\ closed = << >>
    /\ notified = << >>
    /\ isShuttingDown
    /\ ws = 0
    /\ \E s \in SocketIds : readyState[s] = "CLOSING"

----------------------------------------------------------------------------
(* Claims on the canonical request                                          *)

\* C34: every request passed to the handler has an action name that is not
\* empty.
C34_ActionIsNonEmpty ==
    \A i \in DOMAIN invoked : invoked[i].request.action # ""

\* C35: the payload of every request passed to the handler is the payload field
\* (custom) or the params field (JSON-RPC) of the message when that field is a
\* mapping, and an empty mapping when the field is absent, null, a scalar or an
\* array.
C35_PayloadIsMapping ==
    \A i \in DOMAIN invoked :
        LET wire == invoked[i].wire
            field == IF wire.action.t = "string" THEN wire.payload ELSE wire.params
        IN  invoked[i].request.payload = IF field.t = "object" THEN field ELSE JObj("{}")

\* C36: a heartbeat is never dispatched; a message with a string action field is
\* a custom request whatever its jsonrpc and method fields are (action and
\* payload from the action and payload fields, response without a jsonrpc field);
\* a message is a JSON-RPC request only when it has no string action field.
C36_ClassificationOrder ==
    /\ \A i \in DOMAIN invoked :
        LET wire == invoked[i].wire
            request == invoked[i].request
        IN  /\ wire.type # JStr("ping")
            /\ wire.action.t = "string"
                => /\ invoked[i].respond = "custom"
                   /\ request.action = wire.action.v
                   /\ wire.payload.t = "object" => request.payload = wire.payload
                   /\ wire.payload.t \notin { "object", "array" }
                        => request.payload = JObj("{}")
            /\ invoked[i].respond = "jsonrpc"
                => /\ wire.action.t # "string"
                   /\ wire.jsonrpc = JStr("2.0")
                   /\ wire.method.t = "string"
                   /\ request.action = wire.method.v
    /\ \A i \in DOMAIN settled : \A j \in DOMAIN sent :
        settled[i].inv.wire.action.t = "string" <=> sent[j].frame.jsonrpc = JUndefined

\* a message that has a string action, jsonrpc "2.0" and a string method was
\* served and answered in the custom format
C36_Witness ==
    /\ op = "settle"
    /\ settled[1].inv.wire.action.t = "string"
    /\ settled[1].inv.wire.jsonrpc = JStr("2.0")
    /\ settled[1].inv.wire.method.t = "string"
    /\ settled[1].inv.request.action = settled[1].inv.wire.action.v
    /\ Len(sent) = 1
    /\ sent[1].frame.jsonrpc = JUndefined

----------------------------------------------------------------------------
(* Claims on the log and on the independence of reconnection                *)

LogLine(message, level) == [ message |-> message, level |-> level ]

SendThrows(inv, result) ==
    /\ inv.respond # "none"
    /\ ws # 0
    /\ result = JUnserializable \/ readyState[ws] = "CONNECTING"

C38_ReconnectionIgnoresInflight ==
    [][ /\ op' = "settle"
            => /\ UNCHANGED << status, isShuttingDown, reconnectAttempts,
                               reconnectTimeout, timers, ws, readyState >>
               /\ notified' = << >>
               /\ armed' = << >>
        /\ op' = "close"
            => \E k \in Jitter :
                LET idle == OnClose([ Cur EXCEPT !.readyState[source'] = "CLOSED",
                                                 !.source = source',
                                                 !.inflight = { } ], k)
                IN  /\ status' = idle.status
                    /\ isShuttingDown' = idle.isShuttingDown
                    /\ reconnectAttempts' = idle.reconnectAttempts
                    /\ reconnectTimeout' = idle.reconnectTimeout
                    /\ timers' = idle.timers
                    /\ armed' = idle.armed
                    /\ notified' = idle.notified
                    /\ inflight' = inflight ]_vars

\* the connection dropped while a handler was outstanding: the status is
\* disconnected and the reconnect timer is armed
C38_Witness ==
    /\ op = "close"
    /\ inflight # { }
    /\ status = "disconnected"
    /\ notified = << "disconnected" >>
    /\ Len(armed) = 1
    /\ reconnectTimeout \in timers

----------------------------------------------------------------------------
(* Claims on the plugin                                                     *)

\* C39: while the plugin is deactivated (onDeactivate has completed and onActivate
\* has not been called since) no client is connected, connecting or has a
\* pending reconnect timer; and at most one client is not disconnected at any
\* time.
C39_DeactivationStopsBridge ==
    /\ ~ loaded
        => \A i \in ClientIds :
            /\ clients[i].status = "disconnected"
            /\ clients[i].timers = { }
    /\ Cardinality({ i \in ClientIds : clients[i].status # "disconnected" }) <= 1

====
